---- MODULE Spec2Model ----
(***************************************************************************)
(* Model of the discrete-event CPU scheduling simulator of src/sim.py:     *)
(* Event ordering, the lazily sorted EventQueue, the FCFS and SPN          *)
(* scheduler callbacks, the Sim.run control loop (one action per position  *)
(* of the loop) and the module-level driver that runs several simulations  *)
(* over the same in-memory process records.                                *)
(***************************************************************************)
EXTENDS Integers, Sequences, FiniteSets, TLC

ARRIVAL == 0
UNBLOCK == 1

\* Python's None for sim.runningTime / move, and "no process" in the trace.
None == -1

\* ---- bounds of the explored workloads ----
MaxProcs == 2
MaxMultiProcs == 1
MaxArrive == 3
MaxBurst == 2
MaxLen == 2
\* bounds of the EventQueue harness
MaxTime == 1
MaxPush == 3

\* number of Sim runs the driver performs over the same procs list
NumRuns == 2
MaxIter == 2         \* iterations of an EventQueue in a row
MaxUnblock == 1      \* UNBLOCK events scheduled before a run

VARIABLES
    input,          \* the workload as parsed (never changes)
    procs,          \* the in-memory Process records (activities are mutable)
    policy,         \* scheduler class of the current run
    prevPolicy,     \* scheduler class of the previous run
    run,            \* index of the current run of the driver
    pc,             \* position inside Sim.run
    clock,          \* sim.clock
    events,         \* sim.events.queue
    dirty,          \* sim.events.dirty
    runningTime,    \* sim.runningTime
    move,           \* local variable move of Sim.run
    ready_queue,    \* sched.ready_queue (pids)
    cur,            \* pid whose burst was assigned to runningTime last
    trace,          \* decisions of the current run, in order
    prevTrace,      \* trace of the previous run
    startProcs,     \* procs as the current run found them
    popped,         \* EventQueue harness: events returned by pop since the last push
    peeked,         \* EventQueue harness: <<e>> for the event the last peek returned
    iterated,       \* EventQueue harness: the sequences the iterations since the
                    \* last other operation yielded
    lookupError,    \* the last peek or pop raised LookupError
    dispatched      \* events handed to processEvent by the current run, in order

vars == <<input, procs, policy, prevPolicy, run, pc, clock, events, dirty, runningTime,
          move, ready_queue, cur, trace, prevTrace, startProcs, popped, peeked, iterated, lookupError, dispatched>>

simVars == <<input, procs, policy, prevPolicy, run, pc, clock, runningTime, move,
             ready_queue, cur, trace, prevTrace, startProcs, dispatched>>

\* ------------------------------------------------------------------------
\* Event and EventQueue
\* ------------------------------------------------------------------------

Event(etype, pid, time) == [type |-> etype, pid |-> pid, time |-> time]

\* Event.__lt__ with the process-id tie-break the wrong way round
LtPidReversed(a, b) ==
    IF a.time = b.time
    THEN IF a.type = b.type THEN a.pid > b.pid ELSE a.type < b.type
    ELSE a.time < b.time

\* Event.__lt__
Lt(a, b) ==
    IF a.time = b.time
    THEN IF a.type = b.type THEN a.pid < b.pid ELSE a.type < b.type
    ELSE a.time < b.time

\* one insertion step of a stable descending sort that only uses __lt__
RECURSIVE InsertDesc(_, _)
InsertDesc(s, x) ==
    IF s = <<>> THEN <<x>>
    ELSE IF Lt(Head(s), x) THEN <<x>> \o s
    ELSE <<Head(s)>> \o InsertDesc(Tail(s), x)

\* list.sort(reverse=True)
RECURSIVE SortReverse(_)
SortReverse(s) ==
    IF s = <<>> THEN <<>>
    ELSE InsertDesc(SortReverse(SubSeq(s, 1, Len(s) - 1)), s[Len(s)])

\* __prepareLookup that forgets the pending sort
PrepareLookupNoSort(q, d) == q

\* EventQueue.__prepareLookup (the non-empty case): sort only if dirty
PrepareLookup(q, d) == IF d THEN SortReverse(q) ELSE q

\* EventQueue.peek on a non-empty queue
Peek(q, d) == PrepareLookup(q, d)[Len(q)]

\* a pop that removes the element at the other end of the list
PopRestFirst(q, d) == SubSeq(PrepareLookup(q, d), 2, Len(q))

\* EventQueue.pop on a non-empty queue: the queue that is left
PopRest(q, d) == SubSeq(PrepareLookup(q, d), 1, Len(q) - 1)

\* EventQueue.hasEvent
HasEvent(q) == Len(q) > 0

\* ------------------------------------------------------------------------
\* Workloads
\* ------------------------------------------------------------------------

ActivitySeqs == UNION {[1..n -> 1..MaxBurst] : n \in 1..MaxLen}

\* a process with a single burst, arriving at any time up to MaxArrive
SingleInput == [arrive : 0..MaxArrive, activities : [1..1 -> 1..MaxBurst]]

\* a process with up to MaxLen bursts, present from time 0
MultiInput == [arrive : {0}, activities : ActivitySeqs]

\* a single-burst process that is present from time 0
CrowdInput == [arrive : {0}, activities : [1..1 -> 1..MaxBurst]]

\* the two worked examples of the specification
ExampleFCFS == << [arrive |-> 0, activities |-> <<5>>],
                  [arrive |-> 2, activities |-> <<3>>] >>
ExampleSPN  == << [arrive |-> 0, activities |-> <<8>>],
                  [arrive |-> 1, activities |-> <<4>>] >>

\* the explored workloads: up to MaxProcs single-burst processes with any
\* arrival times, up to MaxMultiProcs processes of several bursts, a crowd of
\* MaxProcs + 1 processes that all arrive at time 0, and the two examples
Workloads == UNION {[1..n -> SingleInput] : n \in 1..MaxProcs}
             \cup UNION {[1..n -> MultiInput] : n \in 1..MaxMultiProcs}
             \cup [1..(MaxProcs + 1) -> CrowdInput]
             \cup {ExampleFCFS, ExampleSPN}

\* Sim.parseProcessFile: ids are assigned by input order, starting at 0
MkProcs(w) == [i \in 1..Len(w) |->
                 [pid |-> i - 1, arrive |-> w[i].arrive,
                  activities |-> w[i].activities]]

Policies == {"FCFS", "SPN"}

Activities(ps, pid) == ps[pid + 1].activities

\* the Sim object, where it is passed in the place of a process
SimObject == 0 - 2

WellFormed(ps) == \A i \in 1..Len(ps) :
                     /\ ps[i].activities # <<>>
                     /\ \A k \in 1..Len(ps[i].activities) : ps[i].activities[k] > 0

\* ------------------------------------------------------------------------
\* Scheduler callbacks, as functions of the state they read and write:
\*   s.rq     sched.ready_queue        s.rt   sim.runningTime
\*   s.procs  the Process records      s.err  an exception was raised
\*   s.cur, s.trace   bookkeeping of the decisions taken
\* ------------------------------------------------------------------------

Entry(clk, what, pid, dur) == [clock |-> clk, decision |-> what, pid |-> pid, dur |-> dur]

SchedState == [rq |-> ready_queue, rt |-> runningTime, procs |-> procs,
               err |-> FALSE, cur |-> cur, trace |-> trace]

\* FCFS_Scheduler.arrive
FCFS_arrive(s, p, clk) ==
    LET rq1 == Append(s.rq, p) IN
    IF Len(rq1) = 1
    THEN IF Activities(s.procs, p) = <<>>
         THEN [s EXCEPT !.rq = rq1, !.err = TRUE]
         ELSE [s EXCEPT !.rq = rq1,
                        !.rt = Head(Activities(s.procs, p)),
                        !.cur = p,
                        !.trace = Append(@, Entry(clk, "start", p, Head(Activities(s.procs, p))))]
    ELSE [s EXCEPT !.rq = rq1]

\* FCFS_Scheduler.idle
FCFS_idle(s, clk) ==
    IF Len(s.rq) > 0
    THEN LET p == Head(s.rq) IN
         IF Activities(s.procs, p) = <<>>
         THEN [s EXCEPT !.rq = Tail(@), !.err = TRUE]
         ELSE [s EXCEPT !.rq = Tail(@),
                        !.rt = Head(Activities(s.procs, p)),
                        !.cur = p,
                        !.trace = Append(@, Entry(clk, "start", p, Head(Activities(s.procs, p))))]
    ELSE s

\* FCFS_Scheduler.unblock(self, p, sim): pass
FCFS_unblock(s, p, sim) == s

\* FCFS_Scheduler.stopRunning
FCFS_stopRunning(s) == s

\* an insertion step that puts x before the elements of equal key
RECURSIVE InsertByKeyUnstable(_, _, _)
InsertByKeyUnstable(ps, s, x) ==
    IF s = <<>> THEN <<x>>
    ELSE IF Head(Activities(ps, x)) <= Head(Activities(ps, Head(s)))
         THEN <<x>> \o s
         ELSE <<Head(s)>> \o InsertByKeyUnstable(ps, Tail(s), x)

\* one insertion step of a stable ascending sort by key activities[0]
RECURSIVE InsertByKey(_, _, _)
InsertByKey(ps, s, x) ==
    IF s = <<>> THEN <<x>>
    ELSE IF Head(Activities(ps, x)) < Head(Activities(ps, Head(s)))
         THEN <<x>> \o s
         ELSE <<Head(s)>> \o InsertByKey(ps, Tail(s), x)

\* list.sort(key=lambda x: x.activities[0])
RECURSIVE SortByKey(_, _)
SortByKey(ps, s) ==
    IF s = <<>> THEN <<>>
    ELSE InsertByKey(ps, SortByKey(ps, SubSeq(s, 1, Len(s) - 1)), s[Len(s)])

\* SPN_Scheduler.add_to_ready_queue
SPN_add_to_ready_queue(s, p) ==
    LET rq1 == Append(s.rq, p) IN
    IF \E i \in 1..Len(rq1) : rq1[i] = SimObject \/ Activities(s.procs, rq1[i]) = <<>>
    THEN [s EXCEPT !.rq = rq1, !.err = TRUE]
    ELSE [s EXCEPT !.rq = SortByKey(s.procs, rq1)]

\* SPN_Scheduler.start_next_process
SPN_start_next_process(s, clk) ==
    IF s.rq = <<>> THEN s
    ELSE LET p == Head(s.rq) IN
         IF Activities(s.procs, p) = <<>>
         THEN [s EXCEPT !.rq = Tail(@), !.err = TRUE]
         ELSE [s EXCEPT !.rq = Tail(@),
                        !.rt = Head(Activities(s.procs, p)),
                        !.procs[p + 1].activities = Tail(@),
                        !.cur = p,
                        !.trace = Append(@, Entry(clk, "start", p, Head(Activities(s.procs, p))))]

\* an arrive that starts the new head whether or not the CPU is busy
SPN_arrivePreempt(s, p, clk) ==
    LET s1 == SPN_add_to_ready_queue(s, p) IN
    IF s1.err THEN s1 ELSE SPN_start_next_process(s1, clk)

\* SPN_Scheduler.arrive
SPN_arrive(s, p, clk) ==
    LET s1 == SPN_add_to_ready_queue(s, p) IN
    IF s1.err THEN s1
    ELSE IF s1.rt = None THEN SPN_start_next_process(s1, clk) ELSE s1

\* SPN_Scheduler.unblock(self, p, sim): the sort key of add_to_ready_queue
\* reads p.activities and the test reads sim.runningTime, attributes that
\* only a process, respectively only the Sim object, has
SPN_unblock(s, p, sim, clk) ==
    LET s1 == SPN_add_to_ready_queue(s, p) IN
    IF s1.err THEN s1
    ELSE IF sim # SimObject THEN [s1 EXCEPT !.err = TRUE]
    ELSE IF s1.rt = None THEN SPN_start_next_process(s1, clk)
    ELSE s1

\* an idle that starts nothing
SPN_idleNoop(s, clk) == s

\* SPN_Scheduler.idle
SPN_idle(s, clk) ==
    IF s.rq # <<>> THEN SPN_start_next_process(s, clk) ELSE s

\* SPN_Scheduler.stopRunning
SPN_stopRunning(s) == [s EXCEPT !.rt = None]

\* ------------------------------------------------------------------------
\* Sim
\* ------------------------------------------------------------------------

\* a getTimeForward that only looks at the event queue
GetTimeForwardEventsOnly(q, d, clk, rt) ==
    IF HasEvent(q) THEN Peek(q, d).time - clk ELSE None

\* Sim.getTimeForward (the value; the peek it performs sorts a dirty queue)
GetTimeForward(q, d, clk, rt) ==
    IF HasEvent(q) THEN Peek(q, d).time - clk
    ELSE IF rt # None THEN rt
    ELSE None

\* canStopRunning with a strict comparison
CanStopRunningStrict(rt, mv) == mv # None /\ rt # None /\ rt < mv

\* canStopRunning that does not compare the burst with the step
CanStopRunningAlways(rt, mv) == mv # None /\ rt # None

\* canStopRunning of Sim.handleTimeDone
CanStopRunning(rt, mv) == mv # None /\ rt # None /\ rt <= mv

\* a draining loop that is never entered
DrainCondNone(q, d, clk) == FALSE

\* a draining loop that compares the wrong way
DrainCondEarlier(q, d, clk) == HasEvent(q) /\ Peek(q, d).time < clk

\* the test of the draining loop of Sim.run
DrainCond(q, d, clk) == HasEvent(q) /\ Peek(q, d).time = clk

\* Sim.processEvent: sched.arrive(self, e.process) for an ARRIVAL event,
\* sched.unblock(self, e.process) for an UNBLOCK event
ProcessEvent(s, e, clk) ==
    LET s1 == [s EXCEPT !.trace = Append(@, Entry(clk, "dispatch", e.pid, 0))] IN
    IF e.type = ARRIVAL
    THEN IF policy = "FCFS" THEN FCFS_arrive(s1, e.pid, clk)
         ELSE SPN_arrive(s1, e.pid, clk)
    ELSE IF policy = "FCFS" THEN FCFS_unblock(s1, SimObject, e.pid)
         ELSE SPN_unblock(s1, SimObject, e.pid, clk)

\* writes a scheduler state back
Commit(s) ==
    /\ ready_queue' = s.rq
    /\ runningTime' = s.rt
    /\ procs' = s.procs
    /\ cur' = s.cur
    /\ trace' = s.trace

Init ==
    /\ input = <<>>
    /\ procs = <<>>
    /\ startProcs = <<>>
    /\ policy = "FCFS"
    /\ prevPolicy = "FCFS"
    /\ run = 1
    /\ pc = "parse"
    /\ clock = 0
    /\ events = <<>>
    /\ dirty = FALSE
    /\ runningTime = None
    /\ move = None
    /\ ready_queue = <<>>
    /\ cur = None
    /\ trace = <<>>
    /\ prevTrace = <<>>
    /\ popped = <<>>
    /\ peeked = <<>>
    /\ iterated = <<>>
    /\ lookupError = FALSE
    /\ dispatched = <<>>

\* procs = Sim.parseProcessFile(...); a Sim and its scheduler are constructed
\* over procs (the scheduler class is an input)
Parse ==
    /\ pc = "parse"
    /\ input' \in Workloads
    /\ procs' = MkProcs(input')
    /\ startProcs' = procs'
    /\ policy' \in Policies
    /\ pc' = "init"
    /\ UNCHANGED <<prevPolicy, run, clock, events, dirty, runningTime, move, ready_queue,
                   cur, trace, prevTrace, popped, peeked, iterated, lookupError, dispatched>>

\* the events pushed by initialize, in the order of the procs list
RECURSIVE Arrivals(_, _)
Arrivals(ps, n) ==
    IF n = 0 THEN <<>>
    ELSE Append(Arrivals(ps, n - 1), Event(ARRIVAL, ps[n].pid, ps[n].arrive))

\* sched.initialize(self); move = self.getTimeForward()
Initialize ==
    /\ pc = "init"
    /\ \E q \in {events \o Arrivals(procs, Len(procs))} :
       \E d \in {(Len(procs) > 0) \/ dirty} :
       \E qs \in {IF HasEvent(q) THEN PrepareLookup(q, d) ELSE q} :
          /\ events' = qs
          /\ dirty' = IF HasEvent(q) THEN FALSE ELSE d
          /\ move' = GetTimeForward(qs, dirty', clock, runningTime)
    /\ pc' = "loop"
    /\ UNCHANGED <<input, procs, policy, prevPolicy, run, clock, runningTime, ready_queue,
                   cur, trace, prevTrace, startProcs, popped, peeked, iterated, lookupError, dispatched>>

\* while move is not None: ... (the loop test fails)
LoopExit ==
    /\ pc = "loop"
    /\ move = None
    /\ pc' = "done"
    /\ UNCHANGED <<input, procs, policy, prevPolicy, run, clock, events, dirty, runningTime,
                   move, ready_queue, cur, trace, prevTrace, startProcs, popped, peeked, iterated, lookupError, dispatched>>

\* handleTimeDone(move) returns True, then move = getTimeForward()
HandleTimeDone ==
    /\ pc \in {"loop", "chain"}
    /\ CanStopRunning(runningTime, move)
    /\ clock' = clock + runningTime
    /\ \E s0 \in {[SchedState EXCEPT !.rt = None,
                    !.trace = Append(@, Entry(clock + runningTime, "stop", cur, 0))]} :
       \E s1 \in {IF policy = "FCFS" THEN FCFS_stopRunning(s0)
                  ELSE SPN_stopRunning(s0)} :
          /\ Commit(s1)
          /\ move' = GetTimeForward(events, dirty, clock', s1.rt)
    /\ events' = IF HasEvent(events) THEN PrepareLookup(events, dirty) ELSE events
    /\ dirty' = IF HasEvent(events) THEN FALSE ELSE dirty
    /\ pc' = "chain"
    /\ UNCHANGED <<input, policy, prevPolicy, run, prevTrace, startProcs, popped, peeked, iterated, lookupError, dispatched>>

\* the inner while of the completion branch ends
ChainExit ==
    /\ pc = "chain"
    /\ ~CanStopRunning(runningTime, move)
    /\ pc' = "drain"
    /\ UNCHANGED <<input, procs, policy, prevPolicy, run, clock, events, dirty, runningTime,
                   move, ready_queue, cur, trace, prevTrace, startProcs, popped, peeked, iterated, lookupError, dispatched>>

\* the else branch: runningTime -= move; clock = peek().time; processEvent(pop())
Advance ==
    /\ pc = "loop"
    /\ move # None
    /\ ~CanStopRunning(runningTime, move)
    /\ IF ~HasEvent(events)
       THEN /\ pc' = "crashed"
            /\ lookupError' = TRUE
            /\ runningTime' = IF runningTime # None THEN runningTime - move ELSE runningTime
            /\ UNCHANGED <<procs, clock, events, dirty, ready_queue, cur, trace, dispatched>>
       ELSE \E e \in {Peek(events, dirty)} :
            \E s0 \in {[SchedState EXCEPT
                         !.rt = IF runningTime # None THEN runningTime - move ELSE runningTime]} :
            \E s1 \in {ProcessEvent(s0, e, e.time)} :
               /\ clock' = e.time
               /\ events' = PopRest(events, dirty)
               /\ dirty' = FALSE
               /\ dispatched' = Append(dispatched, e)
               /\ Commit(s1)
               /\ pc' = IF s1.err THEN "crashed" ELSE "drain"
               /\ lookupError' = FALSE
    /\ UNCHANGED <<input, policy, prevPolicy, run, move, prevTrace, startProcs, popped, peeked, iterated>>

\* while hasEvent() and peek().time == clock: processEvent(pop())
DrainEvent ==
    /\ pc = "drain"
    /\ DrainCond(events, dirty, clock)
    /\ \E e \in {Peek(events, dirty)} :
       \E s1 \in {ProcessEvent(SchedState, e, clock)} :
          /\ events' = PopRest(events, dirty)
          /\ dirty' = FALSE
          /\ dispatched' = Append(dispatched, e)
          /\ Commit(s1)
          /\ pc' = IF s1.err THEN "crashed" ELSE "drain"
    /\ UNCHANGED <<input, policy, prevPolicy, run, clock, move, prevTrace, startProcs, popped, peeked, iterated, lookupError>>

\* the draining loop ends
DrainExit ==
    /\ pc = "drain"
    /\ ~DrainCond(events, dirty, clock)
    /\ pc' = "idle"
    /\ events' = IF HasEvent(events) THEN PrepareLookup(events, dirty) ELSE events
    /\ dirty' = IF HasEvent(events) THEN FALSE ELSE dirty
    /\ UNCHANGED <<input, procs, policy, prevPolicy, run, clock, runningTime, move,
                   ready_queue, cur, trace, prevTrace, startProcs, popped, peeked, iterated, lookupError, dispatched>>

\* if runningTime is None: sched.idle(self);  move = getTimeForward()
IdleCheck ==
    /\ pc = "idle"
    /\ \E s0 \in {[SchedState EXCEPT !.trace = Append(@, Entry(clock, "idle", None, 0))]} :
       \E s1 \in {IF runningTime # None THEN SchedState
                  ELSE IF policy = "FCFS" THEN FCFS_idle(s0, clock)
                  ELSE SPN_idle(s0, clock)} :
          /\ Commit(s1)
          /\ IF s1.err
             THEN /\ pc' = "crashed"
                  /\ UNCHANGED <<move, events, dirty>>
             ELSE /\ pc' = "loop"
                  /\ move' = GetTimeForward(events, dirty, clock, s1.rt)
                  /\ events' = IF HasEvent(events) THEN PrepareLookup(events, dirty) ELSE events
                  /\ dirty' = IF HasEvent(events) THEN FALSE ELSE dirty
    /\ UNCHANGED <<input, policy, prevPolicy, run, clock, prevTrace, startProcs, popped, peeked, iterated, lookupError, dispatched>>

\* the driver constructs the next Sim and scheduler over the same procs
NextRun ==
    /\ pc = "done"
    /\ run < NumRuns
    /\ run' = run + 1
    /\ pc' = "init"
    /\ clock' = 0
    /\ events' = <<>>
    /\ dirty' = FALSE
    /\ runningTime' = None
    /\ move' = None
    /\ ready_queue' = <<>>
    /\ cur' = None
    /\ prevTrace' = trace
    /\ trace' = <<>>
    /\ startProcs' = procs
    /\ dispatched' = <<>>
    /\ policy' \in Policies
    /\ prevPolicy' = policy
    /\ UNCHANGED <<input, procs, popped, peeked, iterated, lookupError>>

Next ==
    \/ Parse
    \/ Initialize
    \/ LoopExit
    \/ HandleTimeDone
    \/ ChainExit
    \/ Advance
    \/ DrainEvent
    \/ DrainExit
    \/ IdleCheck

\* one simulation
Spec == Init /\ [][Next]_vars

\* the driver: NumRuns simulations, one after the other, over the same procs
NextDriver == Next \/ NextRun

SpecDriver == Init /\ [][NextDriver]_vars

\* Sim.addUnblockEvent(p, t), called on the constructed Sim before run()
AddUnblockEvent ==
    /\ pc = "init"
    /\ Cardinality({k \in 1..Len(events) : events[k].type = UNBLOCK}) < MaxUnblock
    /\ \E p \in 1..Len(procs), t \in 0..MaxArrive :
          events' = Append(events, Event(UNBLOCK, p - 1, clock + t))
    /\ dirty' = TRUE
    /\ UNCHANGED <<input, procs, policy, prevPolicy, run, pc, clock, runningTime, move,
                   ready_queue, cur, trace, prevTrace, startProcs, popped, peeked,
                   iterated, lookupError, dispatched>>

\* a run with UNBLOCK events scheduled by the caller
NextUnblock == Next \/ AddUnblockEvent

SpecUnblock == Init /\ [][NextUnblock]_vars

\* the control loop is a sequential program: it always takes its next step
FairSpec == Spec /\ WF_vars(Next)

\* ------------------------------------------------------------------------
\* EventQueue on its own: any interleaving of push, peek and pop
\* ------------------------------------------------------------------------

EventSet == [type : {ARRIVAL, UNBLOCK}, pid : 0..(MaxProcs - 1), time : 0..MaxTime]

InitEQ ==
    /\ input = <<>>
    /\ procs = <<>>
    /\ startProcs = <<>>
    /\ policy = "FCFS"
    /\ prevPolicy = "FCFS"
    /\ run = 1
    /\ pc = "queue"
    /\ clock = 0
    /\ events = <<>>
    /\ dirty = FALSE
    /\ runningTime = None
    /\ move = None
    /\ ready_queue = <<>>
    /\ cur = None
    /\ trace = <<>>
    /\ prevTrace = <<>>
    /\ popped = <<>>
    /\ peeked = <<>>
    /\ iterated = <<>>
    /\ lookupError = FALSE
    /\ dispatched = <<>>

\* EventQueue.push
EQPush ==
    /\ pc = "queue"
    /\ Len(events) < MaxPush
    /\ \E e \in EventSet : events' = Append(events, e)
    /\ dirty' = TRUE
    /\ popped' = <<>>
    /\ peeked' = <<>>
    /\ iterated' = <<>>
    /\ lookupError' = FALSE
    /\ UNCHANGED simVars

\* EventQueue.peek
EQPeek ==
    /\ pc = "queue"
    /\ IF HasEvent(events)
       THEN /\ events' = PrepareLookup(events, dirty)
            /\ dirty' = FALSE
            /\ peeked' = <<Peek(events, dirty)>>
            /\ lookupError' = FALSE
       ELSE /\ lookupError' = TRUE
            /\ peeked' = <<>>
            /\ UNCHANGED <<events, dirty>>
    /\ iterated' = <<>>
    /\ UNCHANGED <<popped>>
    /\ UNCHANGED simVars

\* EventQueue.pop
EQPop ==
    /\ pc = "queue"
    /\ IF HasEvent(events)
       THEN /\ events' = PopRest(events, dirty)
            /\ dirty' = FALSE
            /\ popped' = Append(popped, Peek(events, dirty))
            /\ lookupError' = FALSE
       ELSE /\ lookupError' = TRUE
            /\ UNCHANGED <<events, dirty, popped>>
    /\ peeked' = <<>>
    /\ iterated' = <<>>
    /\ UNCHANGED simVars

\* EventQueue.__iter__, the iterator run to its end
EQIter ==
    /\ pc = "queue"
    /\ Len(iterated) < MaxIter
    /\ events' = IF dirty THEN SortReverse(events) ELSE events
    /\ dirty' = FALSE
    /\ iterated' = Append(iterated, events')
    /\ lookupError' = FALSE
    /\ UNCHANGED <<popped, peeked>>
    /\ UNCHANGED simVars

NextEQ == EQPush \/ EQPeek \/ EQPop \/ EQIter

SpecEQ == InitEQ /\ [][NextEQ]_vars

\* the event queue on its own and inside a run
NextLookup == Next \/ NextEQ

SpecLookup == (Init \/ InitEQ) /\ [][NextLookup]_vars

TypeOK ==
    /\ pc \in {"init", "loop", "chain", "drain", "idle", "done", "crashed", "queue", "parse"}
    /\ clock \in Nat
    /\ runningTime \in Nat \cup {None}
    /\ move \in Nat \cup {None}
    /\ run \in 1..NumRuns

\* ------------------------------------------------------------------------
\* Properties
\* ------------------------------------------------------------------------

\* (time, kind, process id) lexicographic order, ARRIVAL before UNBLOCK
LexLeq(a, b) ==
    \/ a.time < b.time
    \/ a.time = b.time /\ a.type < b.type
    \/ a.time = b.time /\ a.type = b.type /\ a.pid <= b.pid

NonDecreasing(s) == \A i, j \in 1..Len(s) : i < j => LexLeq(s[i], s[j])

Last(s) == s[Len(s)]

\* the running burst ends no later than the earliest queued event is due
CompletionDue ==
    /\ pc \in {"loop", "chain", "drain", "idle"}
    /\ runningTime # None
    /\ HasEvent(events)
    /\ runningTime <= Peek(events, dirty).time - clock

\* C1: completion precedence. While a process is running and its remaining
\* running time is at most the delta to the earliest queued event, no step
\* dispatches an event; the only step that changes the clock or the running
\* time is the completion, which invokes stopRunning and advances the clock
\* by exactly the remaining running time.
C1_CompletionPrecedence ==
    [][CompletionDue =>
         /\ Len(events') = Len(events)
         /\ dispatched' = dispatched
         /\ \/ clock' = clock /\ runningTime' = runningTime /\ trace' = trace
            \/ /\ clock' = clock + runningTime
               /\ runningTime' = None
               /\ trace' = Append(trace, Entry(clock + runningTime, "stop", cur, 0))]_vars

\* C1 witness: a burst has just completed at the very instant the earliest
\* queued event is due, and that event is still queued.
C1_Witness ==
    /\ pc = "chain"
    /\ trace # <<>>
    /\ Last(trace).decision = "stop"
    /\ HasEvent(events)
    /\ Peek(events, dirty).time = clock
    /\ clock > 0

\* C2: EventQueue ordering law. Every pop and every peek returns an element
\* of the queue that is minimal under (time, kind, process id); pop removes
\* exactly one element; the pops since the last push are non-decreasing.
C2_OrderingLaw ==
    [][/\ Len(popped') = Len(popped) + 1 =>
            /\ \E i \in 1..Len(events) : events[i] = Last(popped')
            /\ \A i \in 1..Len(events) : LexLeq(Last(popped'), events[i])
            /\ Len(events') = Len(events) - 1
       /\ peeked' # <<>> =>
            /\ \E i \in 1..Len(events) : events[i] = peeked'[1]
            /\ \A i \in 1..Len(events) : LexLeq(peeked'[1], events[i])
            /\ Len(events') = Len(events)
       /\ NonDecreasing(popped')]_vars

\* C2 witness: three pops in a row that exercise the tie-breaks: two events
\* of the same time and different kinds, two of the same time and kind.
C2_Witness ==
    /\ pc = "queue"
    /\ Len(popped) = 3
    /\ popped[1].time = popped[2].time /\ popped[1].type = popped[2].type
    /\ popped[1].pid < popped[2].pid
    /\ popped[2].time = popped[3].time /\ popped[2].type # popped[3].type

\* the decisions of kind k in a trace
Of(tr, k) == SelectSeq(tr, LAMBDA e : e.decision = k)

\* the burst durations assigned to runningTime for process p, in order
StartedDurs(tr, p) ==
    LET st == SelectSeq(tr, LAMBDA e : e.decision = "start" /\ e.pid = p)
    IN [k \in 1..Len(st) |-> st[k].dur]

Count(sq, v) == Cardinality({k \in 1..Len(sq) : sq[k] = v})

SameMultiset(a, b) ==
    /\ Len(a) = Len(b)
    /\ \A k \in 1..Len(a) : Count(a, a[k]) = Count(b, a[k])

\* C3: conservation. When the loop has terminated on a well-formed workload,
\* the bursts started for every process are, as a multiset, exactly the
\* bursts of its input sequence: none started twice, none skipped.
C3_Conservation ==
    pc = "done" =>
        \A i \in 1..Len(input) :
            SameMultiset(StartedDurs(trace, i - 1), input[i].activities)

\* C4: termination. A run that begins on a well-formed workload reaches the
\* exit of the control loop.
C4_Termination == (pc = "init" /\ WellFormed(procs)) ~> (pc = "done")

\* C4 witness: a run under SPN over three processes has left the loop.
C4_Witness ==
    /\ pc = "done"
    /\ policy = "SPN"
    /\ WellFormed(startProcs)
    /\ Len(startProcs) > MaxProcs
    /\ Len(Of(trace, "stop")) = Len(startProcs)

\* starts and completions of a trace as <<clock, decision, pid>>
Decisions(tr) ==
    LET d == SelectSeq(tr, LAMBDA e : e.decision \in {"start", "stop"})
    IN [k \in 1..Len(d) |-> <<d[k].clock, d[k].decision, d[k].pid>>]

\* p arrived no later than q (ties by lower id)
ArrivedBefore(p, q) ==
    \/ input[p + 1].arrive < input[q + 1].arrive
    \/ input[p + 1].arrive = input[q + 1].arrive /\ p <= q

\* C5: FCFS trace. Under FCFS every process is started once per CPU burst,
\* starts happen in arrival order, and the example workload runs
\* P0 0..5, P1 5..8 with the loop ending at clock 8.
C5_FCFSTrace ==
    (pc = "done" /\ policy = "FCFS") =>
        /\ \A i \in 1..Len(input) :
              Len(StartedDurs(trace, i - 1)) = (Len(input[i].activities) + 1) \div 2
        /\ LET st == Of(trace, "start") IN
              \A i, j \in 1..Len(st) : i < j => ArrivedBefore(st[i].pid, st[j].pid)
        /\ input = ExampleFCFS =>
              /\ Decisions(trace) = << <<0, "start", 0>>, <<5, "stop", 0>>,
                                       <<5, "start", 1>>, <<8, "stop", 1>> >>
              /\ clock = 8

\* a step that hands an event to the scheduler
Dispatches == Len(dispatched') = Len(dispatched) + 1

\* C6: SPN is non-preemptive. An arrival dispatched while a burst is running
\* only lets the elapsed time pass on runningTime, starts nothing and puts
\* the arriving process into the ready queue; the example workload runs
\* P0 0..8 and then P1 8..12.
C6_SPNNonPreemptive ==
    [][/\ (policy = "SPN" /\ runningTime # None /\ Dispatches) =>
            /\ runningTime' = runningTime - (clock' - clock)
            /\ cur' = cur
            /\ Of(trace', "start") = Of(trace, "start")
            /\ \E k \in 1..Len(ready_queue') :
                  ready_queue'[k] = Last(dispatched').pid
       /\ (pc' = "done" /\ policy' = "SPN" /\ input' = ExampleSPN) =>
            /\ Decisions(trace') = << <<0, "start", 0>>, <<8, "stop", 0>>,
                                      <<8, "start", 1>>, <<12, "stop", 1>> >>
            /\ clock' = 12]_vars

\* C6 witness: the example has run to its end under SPN, the shorter P1
\* having arrived at time 1 while P0 was running.
C6_Witness ==
    /\ pc = "done"
    /\ policy = "SPN"
    /\ input = ExampleSPN
    /\ dispatched = << Event(ARRIVAL, 0, 0), Event(ARRIVAL, 1, 1) >>
    /\ clock = 12

\* C7: over a whole run the events are dispatched in non-decreasing
\* (time, kind, process id) order, whatever the order they were pushed in.
C7_DispatchOrder == NonDecreasing(dispatched)

\* C7 witness: a finished run in which two arrivals due at the same time,
\* later than time 0, were dispatched lower id first.
C7_Witness ==
    /\ pc = "done"
    /\ Len(dispatched) = 2
    /\ dispatched[1].time = dispatched[2].time
    /\ dispatched[1].time > 0
    /\ dispatched[1].pid = 0 /\ dispatched[2].pid = 1

\* C8: when the loop is about to invoke idle, no queued event is due at the
\* current clock value.
C8_DrainBeforeIdle ==
    (pc = "idle" /\ runningTime = None) =>
        ~(HasEvent(events) /\ Peek(events, dirty).time = clock)

\* C8 witness: idle is about to be invoked at the instant a burst completed,
\* right after the draining loop dispatched an event due at that instant.
C8_Witness ==
    /\ pc = "idle"
    /\ runningTime = None
    /\ clock > 0
    /\ Len(trace) >= 2
    /\ Last(trace).decision = "dispatch"
    /\ Last(trace).clock = clock
    /\ trace[Len(trace) - 1].decision = "stop"

\* C9: idle is invoked at most once per clock value, and no event is
\* dispatched at a clock value after idle was invoked at that value.
C9_IdleOncePerInstant ==
    \A i, j \in 1..Len(trace) :
        (i < j /\ trace[i].decision = "idle") =>
            /\ trace[j].decision = "idle" => trace[i].clock < trace[j].clock
            /\ trace[j].decision = "dispatch" => trace[i].clock < trace[j].clock

\* C9 witness: idle has been invoked at two instants, with an event
\* dispatched in between.
C9_Witness ==
    /\ Len(Of(trace, "idle")) >= 2
    /\ \E i, j, k \in 1..Len(trace) :
          /\ i < j /\ j < k
          /\ trace[i].decision = "idle"
          /\ trace[j].decision = "dispatch"
          /\ trace[k].decision = "idle"

\* C10: determinism of re-runs. A second run under the same policy over the
\* same in-memory process records yields the trace of the first, and every
\* run leaves the burst sequences as it found them.
C10_RerunDeterminism ==
    /\ pc = "done" => procs = startProcs
    /\ (run > 1 /\ pc \in {"done", "crashed"} /\ prevPolicy = policy) =>
          trace = prevTrace

\* C11: clock monotonicity. The clock is a non-negative integer that no step
\* of a run decreases, no queued event is due before the clock, and the
\* value getTimeForward returned is never negative.
C11_ClockMonotonic ==
    [][/\ clock' \in Nat
       /\ clock' >= clock
       /\ \A k \in 1..Len(events') : events'[k].time >= clock'
       /\ move' # None => move' \in Nat
       /\ runningTime' # None => runningTime' \in Nat]_vars

\* C11 witness: the clock was advanced to an arrival due after time 0 while
\* a later event is still queued.
C11_Witness ==
    /\ pc = "drain"
    /\ clock > 0
    /\ Len(dispatched) > 0
    /\ Last(dispatched).time = clock
    /\ HasEvent(events)
    /\ Peek(events, dirty).time > clock

\* C12: FCFS arrive. Under FCFS a dispatched arrival appends the process to
\* the ready queue; it starts a process only when the ready queue was empty
\* and nothing was running, and when a burst is running it only lets the
\* elapsed time pass on runningTime.
C12_FCFSArrive ==
    [][(policy = "FCFS" /\ Dispatches) =>
          /\ ready_queue' = Append(ready_queue, Last(dispatched').pid)
          /\ Of(trace', "start") # Of(trace, "start") =>
                (ready_queue = <<>> /\ runningTime = None)
          /\ runningTime # None =>
                /\ runningTime' = runningTime - (clock' - clock)
                /\ cur' = cur]_vars

\* C13: exact burst timing. Started bursts and stopRunning calls correspond
\* one to one, in order: the k-th stop is of the process of the k-th start
\* and happens at the clock of that start plus the length of the burst; a
\* burst is running exactly while a start has no stop yet, and none is left
\* at the end of the run.
C13_ExactBurstTiming ==
    LET st == Of(trace, "start")
        sp == Of(trace, "stop")
    IN  /\ Len(sp) <= Len(st)
        /\ Len(st) <= Len(sp) + 1
        /\ (runningTime # None) <=> (Len(st) = Len(sp) + 1)
        /\ \A k \in 1..Len(sp) :
              k <= Len(st) =>
                 /\ sp[k].pid = st[k].pid
                 /\ sp[k].clock = st[k].clock + st[k].dur
        /\ pc = "done" => Len(sp) = Len(st)

\* the position of the event of process p in a sequence of events
Position(ev, p) == CHOOSE k \in 1..Len(ev) : ev[k].pid = p

\* a step in which the scheduler starts a burst
Starts == Len(Of(trace', "start")) = Len(Of(trace, "start")) + 1

\* C14: SPN selection. When SPN starts a process, its burst is no longer
\* than the next burst of any process left in the ready queue, and a
\* process left with an equal next burst was admitted later.
C14_SPNSelection ==
    [][(policy = "SPN" /\ Starts) =>
          LET e == Last(Of(trace', "start")) IN
          \A k \in 1..Len(ready_queue') :
             LET q == ready_queue'[k]
                 b == Head(Activities(procs', q))
             IN  /\ e.dur <= b
                 /\ e.dur = b =>
                       Position(dispatched', e.pid) < Position(dispatched', q)]_vars

\* C14 witness: SPN has just started a process ahead of one that was
\* admitted earlier and waits with a longer next burst.
C14_Witness ==
    /\ policy = "SPN"
    /\ trace # <<>>
    /\ Last(trace).decision = "start"
    /\ \E k \in 1..Len(ready_queue) :
          /\ Position(dispatched, ready_queue[k]) < Position(dispatched, Last(trace).pid)
          /\ Head(Activities(procs, ready_queue[k])) > Last(trace).dur

\* C15: UNBLOCK dispatch. When an UNBLOCK event for process p is dispatched,
\* no exception is raised, p is admitted (it is in the ready queue afterwards
\* or it is the process just started) and the CPU is not idle afterwards.
C15_UnblockDispatch ==
    [][(Dispatches /\ Last(dispatched').type = UNBLOCK) =>
          LET p == Last(dispatched').pid IN
          /\ pc' # "crashed"
          /\ \/ \E k \in 1..Len(ready_queue') : ready_queue'[k] = p
             \/ (Starts /\ Last(trace').decision = "start" /\ Last(trace').pid = p)
          /\ runningTime' # None]_vars

\* C16: EventQueue iteration. Every iteration yields all the elements of
\* the queue, each once, in ascending Event order (earliest due first), and
\* iterations that follow each other yield the same sequence.
C16_Iteration ==
    \A k \in 1..Len(iterated) :
       /\ SameMultiset(iterated[k], events)
       /\ NonDecreasing(iterated[k])
       /\ iterated[k] = iterated[1]

\* C17: no empty-queue fault. A peek or pop raises LookupError only on an
\* empty EventQueue, and then leaves the queue as it was and returns nothing;
\* on an empty queue, a step that is neither a push nor an iteration raises
\* it; and no step of Sim.run ever raises it.
C17_NoEmptyLookup ==
    [][/\ lookupError' =>
            /\ pc = "queue"
            /\ events = <<>>
            /\ events' = <<>>
            /\ dirty' = dirty
            /\ peeked' = <<>>
            /\ popped' = popped
       /\ (pc = "queue" /\ events = <<>> /\ events' = <<>> /\ iterated' = <<>>) =>
            lookupError'
       /\ pc # "queue" => (~lookupError' /\ pc' # "crashed")]_vars

\* C17 witness: inside a run the queue is empty while a burst is still
\* running, so the step returned by getTimeForward is the remaining time of
\* the burst and the loop goes on with nothing left to peek at.
C17_Witness ==
    /\ pc = "loop"
    /\ events = <<>>
    /\ runningTime # None
    /\ move = runningTime
    /\ Len(dispatched) > 0

\* C18: events are dispatched on time. Every arrival pushed by initialize is
\* at any time either queued or dispatched, never both and never twice, and
\* none is queued when the run ends; at a dispatch the clock equals the time
\* of the event; no queued event is due before the clock.
C18_DispatchedOnTime ==
    [][/\ Dispatches =>
            /\ clock' = Last(dispatched').time
            /\ Last(Of(trace', "dispatch")).clock = Last(dispatched').time
            /\ Last(Of(trace', "dispatch")).pid = Last(dispatched').pid
       /\ \A k \in 1..Len(events') : events'[k].time >= clock'
       /\ pc' \notin {"parse", "init", "queue"} =>
            SameMultiset(dispatched' \o events', Arrivals(startProcs', Len(startProcs')))
       /\ pc' = "done" => events' = <<>>]_vars

\* C18 witness: a run has ended after dispatching two arrivals due at
\* different times, the later one after the clock had passed time 0.
C18_Witness ==
    /\ pc = "done"
    /\ Len(dispatched) = 2
    /\ Len(input) = 2
    /\ dispatched[1].time < dispatched[2].time
    /\ clock > dispatched[2].time

\* C19: work conservation. At the end of every iteration of the loop the
\* CPU is idle only if the ready queue is empty, and the clock never
\* advances from a state with an idle CPU and a waiting process.
C19_WorkConservation ==
    [][/\ (pc' = "loop" /\ runningTime' = None) => ready_queue' = <<>>
       /\ (clock' > clock /\ runningTime = None) => ready_queue = <<>>]_vars

\* C19 witness: an iteration has ended at a time after 0 with the CPU idle
\* and nothing waiting, idle having been invoked, while an arrival is still
\* to come.
C19_Witness ==
    /\ pc = "loop"
    /\ runningTime = None
    /\ ready_queue = <<>>
    /\ clock > 0
    /\ HasEvent(events)
    /\ trace # <<>>
    /\ Last(trace).decision = "idle"
    /\ Len(Of(trace, "start")) > 0

\* C20: clean termination state. When the loop of Sim.run has exited, the
\* event queue is empty, nothing is running, the ready queue is empty and
\* every process of the workload has been started at least once.
C20_CleanTermination ==
    pc = "done" =>
       /\ events = <<>>
       /\ runningTime = None
       /\ ready_queue = <<>>
       /\ \A i \in 1..Len(input) : StartedDurs(trace, i - 1) # <<>>

\* C20 witness: a run over at least two processes has ended, one of which
\* had to wait and was started after the time it arrived at.
C20_Witness ==
    /\ pc = "done"
    /\ Len(input) >= 2
    /\ \A i \in 1..Len(input) :
          \E k \in 1..Len(trace) : trace[k].decision = "start" /\ trace[k].pid = i - 1
    /\ \E i \in 1..Len(input) :
          \A k \in 1..Len(trace) :
             (trace[k].decision = "start" /\ trace[k].pid = i - 1) =>
                trace[k].clock > input[i].arrive
====
